---- MODULE Spec2Model ----
(***************************************************************************)
(* A model of vivacitypy: the date and identifier batching of              *)
(* client.py, the request loop of VivacityClient.get_counts and            *)
(* get_speed with its per-sub-batch failure handling, the two metadata     *)
(* methods, the bidirectional aggregation, the speed join of               *)
(* fetch_region_traffic_with_speed, and the road-name formatting and       *)
(* sensor-name parsing of utils.py.                                        *)
(*                                                                         *)
(* Datetimes are instants counted in units of 1/UnitsPerDay of a day.      *)
(* Strings that the code takes apart (sensor names) are sequences of       *)
(* one-character strings.  Python's None is the value None below.          *)
(***************************************************************************)
EXTENDS Integers, Sequences, FiniteSets

\* ------------------------------------------------------------------ bounds
UnitsPerDay == 2
MaxTime == 9
MaxDays == 3
MaxIds == 101

\* ------------------------------------------------------- program constants
\* client.py:187 and :284, the slice width of the identifier batching
BatchSize == 50
\* client.py:184 and :281, max_days of the date batching in the fetch methods
FetchMaxDays == 7

VARIABLES
    \* batch_date_range: the arguments and the returned list
    from_date, to_date, max_days, batches,
    \* the identifier batching of get_counts / get_speed
    countline_ids, id_batches,
    \* VivacityClient._client: "open" (an httpx.AsyncClient) or None
    _client,
    \* the fetch call in progress: where it stands, its method and arguments
    pc, method, start_time, end_time, bidirectional,
    \* its locals: the date batches, the loop position, the collected records
    date_batches, gi, di, all_records,
    \* what it returned, and the exception it raised ("none" when it returned)
    result, error,
    \* fetch_region_traffic_with_speed: whether it is the caller of the
    \* method in progress, its frame of count rows, the frame it returned
    outer, df, traffic,
    \* extract_camera_id: the argument and the returned tuple
    sensor_name, parsed,
    \* format_road_name: the argument and the returned string
    camel_case, formatted,
    \* history: the requests put on the wire, and one entry per loop iteration
    requests, log

batchVars == <<from_date, to_date, max_days, batches>>
idVars == <<countline_ids, id_batches>>
callVars == <<pc, method, start_time, end_time, bidirectional,
              date_batches, gi, di, all_records, result, error, requests, log,
              outer, df, traffic>>
fetchVars == <<_client, callVars>>
nameVars == <<sensor_name, parsed, camel_case, formatted>>
vars == <<batchVars, idVars, fetchVars, nameVars>>

\* ----------------------------------------------------------------- helpers
Min(a, b) == IF a < b THEN a ELSE b

\* Python's None, where the other values are sequences or strings
None == <<"None">>
\* JSON null where the other values are numbers (counts, speeds)
Null == -1

\* datetime.timedelta(days=d), in units
timedelta(days) == days * UnitsPerDay

\* ------------------------------------------------- client.batch_date_range
\* A plausible slip: the batch end not clipped to to_date.
BatchEndUnclipped(current, to, maxd) == current + timedelta(maxd)

\* client.py:30  batch_end = min(current + timedelta(days=max_days), to_date)
BatchEnd(current, to, maxd) == Min(current + timedelta(maxd), to)

RECURSIVE BatchLoop(_, _, _, _)
\* client.py:29-32, the while loop
BatchLoop(current, to, maxd, acc) ==
    IF current < to
    THEN LET batch_end == BatchEnd(current, to, maxd)
         IN  BatchLoop(batch_end, to, maxd,
                       Append(acc, [from |-> current, to |-> batch_end]))
    ELSE acc

\* client.py:22-33
batch_date_range(from, to, maxd) == BatchLoop(from, to, maxd, <<>>)

\* ------------------------------------------------ the identifier batching
RECURSIVE Range(_, _, _)
\* Python's range(start, stop, step) for step > 0, as a sequence
Range(start, stop, step) ==
    IF start < stop THEN <<start>> \o Range(start + step, stop, step) ELSE <<>>

\* Python's s[i:j] for 0 <= i <= j (j clipped to the length)
Slice(s, i, j) == SubSeq(s, i + 1, Min(j, Len(s)))

\* A plausible slip: slices one short of the step, dropping an identifier.
IdBatchesShortSlice(ids) ==
    LET starts == Range(0, Len(ids), BatchSize)
    IN  [k \in 1..Len(starts) |-> Slice(ids, starts[k], starts[k] + BatchSize - 1)]

\* client.py:187 and :284
\*   id_batches = [countline_ids[i:i + 50] for i in range(0, len(countline_ids), 50)]
IdBatches(ids) ==
    LET starts == Range(0, Len(ids), BatchSize)
    IN  [k \in 1..Len(starts) |-> Slice(ids, starts[k], starts[k] + BatchSize)]

\* The identifier lists tried: n identifiers, all distinct ("distinct") or
\* cycling through three values ("repeating").
IdPatterns == {"distinct", "repeating"}
MkIds(n, pat) == [i \in 1..n |-> IF pat = "distinct" THEN i ELSE i % 3]

\* ------------------------------------------------- the class -> mode table
\* constants.VIVACITY_TO_UNIFIED.  constants.py is not among the sources; the
\* table here holds the entry the specification names (car -> car) and one
\* renaming entry, so that a mapped label and its mode differ.
VIVACITY_CLASS_MAP == [car |-> "car", cyclist |-> "bicycle"]

\* A plausible slip: an unrecognised label mapped to a default mode.
ClassModeDefault(viv_class) ==
    IF viv_class \in DOMAIN VIVACITY_CLASS_MAP
    THEN VIVACITY_CLASS_MAP[viv_class] ELSE "unknown"

\* client.py:232  mode = VIVACITY_CLASS_MAP.get(viv_class, viv_class)
ClassMode(viv_class) ==
    IF viv_class \in DOMAIN VIVACITY_CLASS_MAP
    THEN VIVACITY_CLASS_MAP[viv_class] ELSE viv_class

\* --------------------------------------------- parsing a counts response
\* A response body is the sequence of the JSON object's items, each
\* [id, records]; records is the sequence of the time-bucket records; a
\* time-bucket record is a JSON object (dict = TRUE) with from, to and, per
\* direction, the sequence of its [label, count] items (<<>> when the
\* direction is absent or empty), or some other JSON value (dict = FALSE),
\* on which record.get raises.  Bucket bounds are instants.
Directions == <<"clockwise", "anti_clockwise">>

\* client.py:228  if viv_class == "total" or count is None: continue
KeepsClass(item) == ~(item.label = "total" \/ item.count = Null)

\* client.py:227-243, the loop over one direction's items
EmitDirection(countline_id, record, direction) ==
    LET dir_data == record[direction]
        kept == SelectSeq(dir_data, KeepsClass)
    IN  [k \in 1..Len(kept) |->
            [countline_id |-> countline_id,
             timestamp |-> record.from,
             from |-> record.from,
             to |-> record.to,
             direction |-> direction,
             class |-> kept[k].label,
             mode |-> ClassMode(kept[k].label),
             count |-> kept[k].count]]

\* client.py:221-243, both directions of one time-bucket record
EmitRecord(countline_id, record) ==
    EmitDirection(countline_id, record, Directions[1])
        \o EmitDirection(countline_id, record, Directions[2])

RECURSIVE ParseCountRecords(_, _, _)
\* client.py:216-243: the records of one countline, appended to acc until
\* one of them raises
ParseCountRecords(countline_id, records, acc) ==
    IF records = <<>> THEN [records |-> acc, raised |-> FALSE]
    ELSE IF ~Head(records).dict THEN [records |-> acc, raised |-> TRUE]
    ELSE ParseCountRecords(countline_id, Tail(records),
                           acc \o EmitRecord(countline_id, Head(records)))

RECURSIVE ParseCounts(_, _)
\* client.py:212-243: the items of the response, appended to acc (all_records)
ParseCounts(data, acc) ==
    IF data = <<>> THEN [records |-> acc, raised |-> FALSE]
    ELSE LET one == ParseCountRecords(Head(data).id, Head(data).records, acc)
         IN  IF one.raised THEN one ELSE ParseCounts(Tail(data), one.records)

\* ---------------------------------------------- parsing a speed response
\* client.py:313-321
SpeedRecord(countline_id, record) ==
    [countline_id |-> countline_id,
     from |-> record.from,
     to |-> record.to,
     mean_speed |-> record.mean,
     p50_speed |-> record.p50,
     p85_speed |-> record.p85,
     sample_size |-> record.sample_size]

RECURSIVE ParseSpeedRecords(_, _, _)
\* client.py:312-321
ParseSpeedRecords(countline_id, records, acc) ==
    IF records = <<>> THEN [records |-> acc, raised |-> FALSE]
    ELSE IF ~Head(records).dict THEN [records |-> acc, raised |-> TRUE]
    ELSE ParseSpeedRecords(countline_id, Tail(records),
                           Append(acc, SpeedRecord(countline_id, Head(records))))

RECURSIVE ParseSpeed(_, _)
\* client.py:308-321
ParseSpeed(data, acc) ==
    IF data = <<>> THEN [records |-> acc, raised |-> FALSE]
    ELSE LET one == ParseSpeedRecords(Head(data).id, Head(data).records, acc)
         IN  IF one.raised THEN one ELSE ParseSpeed(Tail(data), one.records)

\* ------------------------------------------------ one iteration's outcome
\* A response: the request raised (exception: a connection error or a
\* timeout), or it came back with a status; a 200's body either does not
\* parse (json_ok = FALSE, resp.json() raises) or is data.
\* client.py:200-246 and :297-324: what one iteration leaves in all_records,
\* and how it ended.
HandleResponse(m, resp, acc) ==
    IF resp.exception THEN [records |-> acc, raised |-> TRUE, skipped |-> FALSE]
    ELSE IF resp.status # 200
    THEN [records |-> acc, raised |-> FALSE, skipped |-> TRUE]
    ELSE IF ~resp.json_ok
    THEN [records |-> acc, raised |-> TRUE, skipped |-> FALSE]
    ELSE LET body == IF m = "get_counts" THEN ParseCounts(resp.data, acc)
                       ELSE ParseSpeed(resp.data, acc)
         IN  [records |-> body.records, raised |-> body.raised,
              skipped |-> FALSE]

\* ------------------------------------------------------- the aggregation
Key(r) == <<r.countline_id, r.timestamp, r.from, r.to, r.class, r.mode>>

RECURSIVE SumCounts(_, _)
\* the "sum" of pandas' agg over the records of one group
SumCounts(records, key) ==
    IF records = <<>> THEN 0
    ELSE (IF Key(Head(records)) = key THEN Head(records).count ELSE 0)
         + SumCounts(Tail(records), key)

\* A plausible slip: the counts of a group not summed, one row per record.
GroupSumPerDirection(records) ==
    { [countline_id |-> records[i].countline_id,
       timestamp |-> records[i].timestamp,
       from |-> records[i].from,
       to |-> records[i].to,
       class |-> records[i].class,
       mode |-> records[i].mode,
       count |-> records[i].count] : i \in 1..Len(records) }

\* client.py:250-258: df.groupby([...]).agg({"count": "sum"}).reset_index()
\* and to_dict(orient="records").  The rows are a set: one row per group,
\* their order (pandas sorts the groups by key) is not modelled.
GroupSum(records) ==
    { [countline_id |-> records[i].countline_id,
       timestamp |-> records[i].timestamp,
       from |-> records[i].from,
       to |-> records[i].to,
       class |-> records[i].class,
       mode |-> records[i].mode,
       count |-> SumCounts(records, Key(records[i]))] : i \in 1..Len(records) }

\* client.py:248-260 (get_counts) and :326 (get_speed): the value returned
Return(m, bidir, records) ==
    IF m = "get_counts" /\ bidir
    THEN [kind |-> "grouped", rows |-> GroupSum(records)]
    ELSE [kind |-> "list", rows |-> records]

\* --------------------------------------------- the traffic and speed frames
\* A frame is the set of its rows: rows that agree in every column
\* coincide, and the order of the rows is not modelled.  A speed is a
\* rational num/den or null (None, NaN).
NullSpeed == [null |-> TRUE, num |-> 0, den |-> 1]

\* .dt.date of an instant (client.py:401, :410)
Date(t) == t \div UnitsPerDay

\* client.py:355-368 with bidirectional=True: the frame of the counts, empty
\* when there are none
FetchRegionTraffic(counts) ==
    { [timestamp |-> c.timestamp,
       sensor_id |-> c.countline_id,
       mode |-> c.mode,
       count |-> c.count,
       v85 |-> NullSpeed,
       region |-> "region",
       source |-> "vivacity"] : c \in counts }

RECURSIVE SumP85(_)
SumP85(records) ==
    IF records = <<>> THEN 0 ELSE Head(records).p85_speed + SumP85(Tail(records))

\* client.py:405-407: the mean of p85_speed over one (sensor, date) group,
\* nulls skipped; null when the group reports none
MeanP85(speed_records, sensor_id, date) ==
    LET InGroup(r) == /\ r.countline_id = sensor_id
                      /\ Date(r.from) = date
                      /\ r.p85_speed # Null
        reported == SelectSeq(speed_records, InGroup)
    IN  IF reported = <<>> THEN NullSpeed
        ELSE [null |-> FALSE, num |-> SumP85(reported), den |-> Len(reported)]

\* client.py:400-407: speed_daily, one row per (sensor, date) of the records
SpeedDaily(speed_records) ==
    { [sensor_id |-> speed_records[i].countline_id,
       date |-> Date(speed_records[i].from),
       p85_speed |-> MeanP85(speed_records, speed_records[i].countline_id,
                             Date(speed_records[i].from))] :
        i \in 1..Len(speed_records) }

\* client.py:410-417: the left join's p85_speed of one row
MergedP85(row, speed_daily) ==
    LET match == {s \in speed_daily :
                    s.sensor_id = row.sensor_id /\ s.date = Date(row.timestamp)}
    IN  IF match = {} THEN NullSpeed ELSE (CHOOSE s \in match : TRUE).p85_speed

\* A plausible slip: the joined speed written to every row.
SetV85AllModes(row, p85_speed) == [row EXCEPT !.v85 = p85_speed]

\* client.py:420: only the "car" rows take the joined speed
SetV85(row, p85_speed) ==
    IF row.mode = "car" THEN [row EXCEPT !.v85 = p85_speed] ELSE row

\* client.py:399-423
JoinSpeed(frame, speed_records) ==
    IF speed_records = <<>> THEN frame
    ELSE { SetV85(row, MergedP85(row, SpeedDaily(speed_records))) : row \in frame }

\* --------------------------------------------------------- the loop glue
\* A plausible slip: break instead of continue, leaving the date loop.
Break(g, d, G, D) ==
    IF g < G THEN [g |-> g + 1, d |-> 1, more |-> TRUE]
    ELSE [g |-> g, d |-> d, more |-> FALSE]

\* client.py:191-192 with the continue of :207 and :246: the position of the
\* next iteration of "for id_batch ...: for date_batch ...:", if there is one
Continue(g, d, G, D) ==
    IF d < D THEN [g |-> g, d |-> d + 1, more |-> TRUE]
    ELSE IF g < G THEN [g |-> g + 1, d |-> 1, more |-> TRUE]
    ELSE [g |-> g, d |-> d, more |-> FALSE]

\* client.py:191-192: the position of the next iteration after one that ran
\* to its end
NextIteration(g, d, G, D) ==
    IF d < D THEN [g |-> g, d |-> d + 1, more |-> TRUE]
    ELSE IF g < G THEN [g |-> g + 1, d |-> 1, more |-> TRUE]
    ELSE [g |-> g, d |-> d, more |-> FALSE]

\* ------------------------------------------------- the responses tried
Item(l, c) == [label |-> l, count |-> c]
CountRec(f, cw, acw) ==
    [dict |-> TRUE, from |-> f, to |-> f + 1, clockwise |-> cw, anti_clockwise |-> acw]
SpeedRec(f, p85) ==
    [dict |-> TRUE, from |-> f, to |-> f + UnitsPerDay,
     mean |-> 20, p50 |-> 25, p85 |-> p85, sample_size |-> 10]
NotADict == [dict |-> FALSE]

\* Bodies of a counts response to a request for ids over date batch b: both
\* directions of one class; several classes (mapped, unmapped, null, zero)
\* in two records of the same bucket, and a countline with no records; a
\* well-formed record followed by a value that is no object.
CountBodies(ids, b) ==
    { << [id |-> ids[1], records |->
            << CountRec(b.from, <<Item("car", 3), Item("total", 3)>>,
                                <<Item("car", 5), Item("total", 5)>>) >>] >>,
      << [id |-> ids[1], records |->
            << CountRec(b.from, <<Item("cyclist", 2), Item("escooter", 1),
                                  Item("car", Null)>>, <<>>),
               CountRec(b.from, <<Item("cyclist", 4)>>, <<Item("car", 0)>>) >>],
         [id |-> 0, records |-> <<>>] >>,
      << [id |-> ids[1], records |->
            << CountRec(b.from, <<Item("car", 3)>>, <<>>), NotADict >>] >> }

\* Bodies of a speed response: one record; three records of which two
\* report a p85 and two start at b.from; a record of the last identifier
\* asked for, followed by a value that is no object.
SpeedBodies(ids, b) ==
    { << [id |-> ids[1], records |-> << SpeedRec(b.from, 30) >>] >>,
      << [id |-> ids[1], records |->
            << SpeedRec(b.from, 30), SpeedRec(b.from + 1, 40),
               SpeedRec(b.from, Null) >>] >>,
      << [id |-> ids[Len(ids)], records |-> << SpeedRec(b.from, 50), NotADict >>] >> }

NoResponse == [exception |-> TRUE, status |-> 0, json_ok |-> FALSE, data |-> <<>>]

Responses(m, ids, b) ==
    { NoResponse,
      [exception |-> FALSE, status |-> 500, json_ok |-> FALSE, data |-> <<>>],
      [exception |-> FALSE, status |-> 200, json_ok |-> FALSE, data |-> <<>>] }
    \cup { [exception |-> FALSE, status |-> 200, json_ok |-> TRUE, data |-> body] :
             body \in IF m = "get_counts" THEN CountBodies(ids, b)
                      ELSE SpeedBodies(ids, b) }

\* The arguments tried by the fetch calls
FetchIdCounts == {0, 1, BatchSize + 1}
FetchTimes == {0, 1, timedelta(FetchMaxDays) + 1}
NoResult == [kind |-> "none", rows |-> <<>>]

\* ------------------------------------------------------ utils: characters
\* A string is the sequence of its characters; the characters are ASCII
\* letters, digits, "_" and " ".
LowerCase == <<"a", "b", "c", "d", "e", "f", "g", "h", "i", "j", "k", "l", "m", "n", "o", "p", "q", "r", "s", "t", "u", "v", "w", "x", "y", "z">>
UpperCase == <<"A", "B", "C", "D", "E", "F", "G", "H", "I", "J", "K", "L", "M", "N", "O", "P", "Q", "R", "S", "T", "U", "V", "W", "X", "Y", "Z">>
DigitChars == {"0", "1", "2", "3", "4", "5", "6", "7", "8", "9"}

IsLower(c) == \E i \in 1..Len(LowerCase) : LowerCase[i] = c
IsUpper(c) == \E i \in 1..Len(UpperCase) : UpperCase[i] = c
IsDigit(c) == c \in DigitChars

ToLower(c) ==
    IF IsUpper(c) THEN LowerCase[CHOOSE i \in 1..Len(UpperCase) : UpperCase[i] = c] ELSE c
ToUpper(c) ==
    IF IsLower(c) THEN UpperCase[CHOOSE i \in 1..Len(LowerCase) : LowerCase[i] = c] ELSE c

\* str.lower, str.upper, str.capitalize
lower(s) == [i \in 1..Len(s) |-> ToLower(s[i])]
upper(s) == [i \in 1..Len(s) |-> ToUpper(s[i])]
capitalize(s) == IF s = <<>> THEN s ELSE <<ToUpper(s[1])>> \o lower(Tail(s))

\* Python's truth value of an optional string
Truthy(s) == s # None /\ s # <<>>

RECURSIVE SplitFrom(_, _, _)
\* str.split(sep) for a one-character sep: cur is the segment being read
SplitFrom(s, sep, cur) ==
    IF s = <<>> THEN <<cur>>
    ELSE IF Head(s) = sep THEN <<cur>> \o SplitFrom(Tail(s), sep, <<>>)
    ELSE SplitFrom(Tail(s), sep, Append(cur, Head(s)))

split(s, sep) == SplitFrom(s, sep, <<>>)

RECURSIVE IndexOf(_, _, _)
\* the first position of character c in s at or after i, 0 when there is none
IndexOf(s, c, i) ==
    IF i > Len(s) THEN 0 ELSE IF s[i] = c THEN i ELSE IndexOf(s, c, i + 1)

\* str.split(sep, 1)
split1(s, sep) ==
    LET i == IndexOf(s, sep, 1)
    IN  IF i = 0 THEN <<s>> ELSE <<SubSeq(s, 1, i - 1), SubSeq(s, i + 1, Len(s))>>

RECURSIVE SplitWords(_, _)
\* str.split(): the maximal runs of characters other than " "
SplitWords(s, cur) ==
    IF s = <<>> THEN (IF cur = <<>> THEN <<>> ELSE <<cur>>)
    ELSE IF Head(s) = " "
    THEN (IF cur = <<>> THEN <<>> ELSE <<cur>>) \o SplitWords(Tail(s), <<>>)
    ELSE SplitWords(Tail(s), Append(cur, Head(s)))

RECURSIVE join(_, _)
\* sep.join(words)
join(sep, words) ==
    IF words = <<>> THEN <<>>
    ELSE IF Len(words) = 1 THEN words[1]
    ELSE words[1] \o sep \o join(sep, Tail(words))

\* sub in s
Contains(s, sub) ==
    \E i \in 1..(Len(s) - Len(sub) + 1) : SubSeq(s, i, i + Len(sub) - 1) = sub

RECURSIVE SubLowerUpper(_)
\* utils.py:23  re.sub(r'([a-z])([A-Z])', r'\1 \2', s): left to right, a
\* match consumes both characters
SubLowerUpper(s) ==
    IF Len(s) < 2 THEN s
    ELSE IF IsLower(s[1]) /\ IsUpper(s[2])
    THEN <<s[1], " ", s[2]>> \o SubLowerUpper(SubSeq(s, 3, Len(s)))
    ELSE <<s[1]>> \o SubLowerUpper(Tail(s))

RECURSIVE SubDigitUpper(_)
\* utils.py:26  re.sub(r'(\d)([A-Z])', r'\1 \2', s)
SubDigitUpper(s) ==
    IF Len(s) < 2 THEN s
    ELSE IF IsDigit(s[1]) /\ IsUpper(s[2])
    THEN <<s[1], " ", s[2]>> \o SubDigitUpper(SubSeq(s, 3, Len(s)))
    ELSE <<s[1]>> \o SubDigitUpper(Tail(s))

\* -------------------------------------------------- utils.format_road_name
\* utils.py:33-49
road_type_abbrevs ==
    << [abbrev |-> <<"s", "t">>, full |-> <<"S", "t", "r", "e", "e", "t">>],
       [abbrev |-> <<"l", "n">>, full |-> <<"L", "a", "n", "e">>],
       [abbrev |-> <<"r", "d">>, full |-> <<"R", "o", "a", "d">>],
       [abbrev |-> <<"a", "v", "e">>, full |-> <<"A", "v", "e", "n", "u", "e">>],
       [abbrev |-> <<"d", "r">>, full |-> <<"D", "r", "i", "v", "e">>],
       [abbrev |-> <<"c", "t">>, full |-> <<"C", "o", "u", "r", "t">>],
       [abbrev |-> <<"p", "l">>, full |-> <<"P", "l", "a", "c", "e">>],
       [abbrev |-> <<"c", "r", "e", "s">>, full |-> <<"C", "r", "e", "s", "c", "e", "n", "t">>],
       [abbrev |-> <<"c", "r">>, full |-> <<"C", "r", "e", "s", "c", "e", "n", "t">>],
       [abbrev |-> <<"g", "r">>, full |-> <<"G", "r", "o", "v", "e">>],
       [abbrev |-> <<"p", "k">>, full |-> <<"P", "a", "r", "k">>],
       [abbrev |-> <<"s", "q">>, full |-> <<"S", "q", "u", "a", "r", "e">>],
       [abbrev |-> <<"t", "e", "r", "r">>, full |-> <<"T", "e", "r", "r", "a", "c", "e">>],
       [abbrev |-> <<"j", "n", "t">>, full |-> <<"J", "u", "n", "c", "t", "i", "o", "n">>],
       [abbrev |-> <<"w", "a", "y">>, full |-> <<"W", "a", "y">>] >>

\* A plausible slip: every word that is an abbreviation of the table
\* replaced by its expansion, not only the last.
ExpandEvery(words) ==
    [k \in 1..Len(words) |->
        LET hits == {i \in 1..Len(road_type_abbrevs) :
                       road_type_abbrevs[i].abbrev = lower(words[k])}
        IN  IF hits = {} THEN words[k]
            ELSE road_type_abbrevs[CHOOSE i \in hits : TRUE].full]

\* utils.py:51-54: the last word replaced by its expansion when it is an
\* abbreviation of the table
ExpandLast(words) ==
    IF words = <<>> THEN words
    ELSE LET last_word == lower(words[Len(words)])
             hits == {i \in 1..Len(road_type_abbrevs) :
                        road_type_abbrevs[i].abbrev = last_word}
         IN  IF hits = {} THEN words
             ELSE [words EXCEPT ![Len(words)] =
                      road_type_abbrevs[CHOOSE i \in hits : TRUE].full]

\* utils.py:3-59
format_road_name(token) ==
    IF ~Truthy(token) THEN token
    ELSE LET spaced == SubDigitUpper(SubLowerUpper(token))
             words == ExpandLast(SplitWords(spaced, <<>>))
         IN  join(<<" ">>, [i \in 1..Len(words) |-> capitalize(words[i])])

\* ------------------------------------------------- utils.extract_camera_id
Crossing == <<"c", "r", "o", "s", "s", "i", "n", "g">>
Segment == <<"s", "e", "g", "m", "e", "n", "t">>
Unknown == <<"u", "n", "k", "n", "o", "w", "n">>
SegmentMarks == {<<"_", "r", "o", "a", "d">>, <<"_", "p", "a", "t", "h">>, <<"_", "c", "y", "c", "l", "e", "p", "a", "t", "h">>, <<"_", "c", "y", "c", "l", "e", "l", "a", "n", "e">>, <<"_", "b", "u", "s", "l", "a", "n">>}

\* utils.py:85-90
CounterType(name_lower) ==
    IF Contains(name_lower, <<"_", "c", "r", "o", "s", "s", "i", "n", "g">>) THEN Crossing
    ELSE IF \E x \in SegmentMarks : Contains(name_lower, x) THEN Segment
    ELSE Unknown

\* A plausible slip: the pattern without its "+", one digit only.
IsCameraPrefixOneDigit(p) ==
    /\ Len(p) = 2
    /\ p[1] \in {"S", "s"}
    /\ IsDigit(p[2])

\* utils.py:95  re.match(r'^[Ss]\d+$', parts[0])
IsCameraPrefix(p) ==
    /\ Len(p) >= 2
    /\ p[1] \in {"S", "s"}
    /\ \A i \in 2..Len(p) : IsDigit(p[i])

\* utils.py:94-100: <<cordon_name, name_body>>
CameraPrefix(name) ==
    LET parts == split1(name, "_")
    IN  IF Len(parts) = 2 /\ IsCameraPrefix(parts[1])
        THEN <<upper(parts[1]), parts[2]>>
        ELSE <<None, name>>

\* utils.py:104-110: <<raw_road_name, road_name>>
RoadName(name_body) ==
    LET body_parts == split(name_body, "_")
    IN  IF body_parts # <<>>
        THEN <<body_parts[1], format_road_name(body_parts[1])>>
        ELSE <<None, None>>

\* utils.py:116  re.sub(r'[nsew]$', '', location_id)
StripCompass(location_id) ==
    IF location_id # <<>> /\ location_id[Len(location_id)] \in {"n", "s", "e", "w"}
    THEN SubSeq(location_id, 1, Len(location_id) - 1)
    ELSE location_id

\* utils.py:113-116
LocationId(raw_road_name) ==
    StripCompass(IF Truthy(raw_road_name) THEN lower(raw_road_name) ELSE <<>>)

\* utils.py:62-126: <<camera_id, cordon_name, road_name, counter_type>>
extract_camera_id(name) ==
    IF ~Truthy(name) THEN <<None, None, None, None>>
    ELSE LET counter_type == CounterType(lower(name))
             prefix == CameraPrefix(name)
             cordon_name == prefix[1]
             road == RoadName(prefix[2])
             location_id == LocationId(road[1])
             camera_id == IF cordon_name # None
                          THEN cordon_name \o <<"_">> \o location_id
                          ELSE location_id
         IN  <<camera_id, cordon_name, road[2], counter_type>>

\* The sensor names tried: None, and every prefix + road token + tail below.
NamePrefixes == {<<"S", "4", "0", "_">>, <<"s", "7", "_">>, <<"S", "_">>, <<"X", "4", "0", "_">>, <<"S", "4", "a", "_">>, <<>>}
NameRoads == {<<"W", "o", "o", "d", "h", "o", "u", "s", "e", "L", "n">>,
              <<"V", "i", "c", "a", "r", "l", "n">>,
              <<"H", "u", "n", "s", "l", "e", "t", "R", "d", "S">>,
              <<"p", "a", "r", "k", "R", "o", "w">>,
              <<"S", "t", "C", "e", "c", "i", "l", "i", "a", "S", "t">>,
              <<"A", "6", "1", "A", "v", "e">>,
              <<"K", "i", "r", "k", "s", "t", "a", "l", "l">>,
              <<>>}
NameTails == {<<"_", "r", "o", "a", "d", "_", "w", "y", "c", "a", "0", "0", "1">>,
              <<"_", "p", "a", "t", "h", "L", "H", "S", "_", "w", "y", "c", "a", "0", "0", "1">>,
              <<"_", "c", "r", "o", "s", "s", "i", "n", "g", "_", "s", "o", "u", "t", "h", "_", "l", "p", "t", "i", "p", "0", "0", "1">>,
              <<"_", "C", "r", "o", "s", "s", "i", "n", "g">>,
              <<"_", "b", "u", "s", "l", "a", "n", "e", "_", "x">>,
              <<>>}
SensorNames ==
    {None} \cup {p \o r \o t : p \in NamePrefixes, r \in NameRoads, t \in NameTails}

\* ---------------------------------------------------- the metadata methods
\* An item of a metadata response is a JSON object.  Of a countline: id,
\* name ("" when absent), whether geometry and geometry.geo_json are
\* present and non-empty, the coordinates (<<>> when absent or empty), and
\* hardware_id (Null when absent); description, is_speed and viewpoint_id
\* are copied like hardware_id and left out.  Of a hardware: id, name
\* ("" here), lat and long (Null when absent); project_name and
\* hardware_version are copied likewise and left out.

\* client.py:104-112
Geometry(item) ==
    IF item.has_geometry /\ item.has_geo_json /\ item.coordinates # <<>>
    THEN [type |-> "LineString", coordinates |-> item.coordinates]
    ELSE [type |-> "None", coordinates |-> <<>>]

\* client.py:115-117
\*   parts = name.split("_")
\*   sensor_name = "_".join(parts[:2]) if len(parts) >= 2 else name
SimplifiedName(name) ==
    LET parts == split(name, "_")
    IN  IF Len(parts) >= 2 THEN join(<<"_">>, SubSeq(parts, 1, 2)) ELSE name

\* client.py:119-128
CountlineRow(item) ==
    [id |-> item.id,
     name |-> item.name,
     sensor_name |-> SimplifiedName(item.name),
     geometry |-> Geometry(item),
     hardware_id |-> item.hardware_id]

\* client.py:149-157
HardwareRow(item) ==
    [id |-> item.id, name |-> item.name, lat |-> item.lat, lon |-> item.long]

\* client.py:98-131 and :144-160 from the response on: raise_for_status,
\* json, and the loop over the items; nothing is caught
MetadataOutcome(m, resp) ==
    IF resp.exception THEN [error |-> "RequestError", rows |-> <<>>]
    ELSE IF resp.status # 200 THEN [error |-> "HTTPStatusError", rows |-> <<>>]
    ELSE IF ~resp.json_ok THEN [error |-> "JSONDecodeError", rows |-> <<>>]
    ELSE [error |-> "none",
          rows |-> [k \in 1..Len(resp.data) |->
                      IF m = "get_countline_metadata"
                      THEN CountlineRow(resp.data[k])
                      ELSE HardwareRow(resp.data[k])]]

\* The names of the countlines tried
MetaName_S40_WoodhouseLn_road == <<"S", "4", "0", "_", "W", "o", "o", "d", "h", "o", "u", "s", "e", "L", "n", "_", "r", "o", "a", "d", "_", "w", "y", "c", "a", "0", "0", "1">>
MetaName_Kirkstall == <<"K", "i", "r", "k", "s", "t", "a", "l", "l">>

\* Bodies of a countline metadata response: no item; a countline with a
\* geometry and one whose geometry has no geo_json; a countline with no
\* name and empty coordinates.
CountlineBodies ==
    { <<>>,
      << [id |-> 1, name |-> MetaName_S40_WoodhouseLn_road, has_geometry |-> TRUE,
          has_geo_json |-> TRUE, coordinates |-> <<1, 2>>, hardware_id |-> 7],
         [id |-> 2, name |-> MetaName_Kirkstall, has_geometry |-> TRUE,
          has_geo_json |-> FALSE, coordinates |-> <<>>, hardware_id |-> Null] >>,
      << [id |-> 3, name |-> <<>>, has_geometry |-> TRUE,
          has_geo_json |-> TRUE, coordinates |-> <<>>, hardware_id |-> 7] >> }

\* Bodies of a hardware metadata response: no item; a hardware with a
\* position and one without.
HardwareBodies ==
    { <<>>,
      << [id |-> 7, name |-> <<>>, lat |-> 53, long |-> 1],
         [id |-> 8, name |-> <<>>, lat |-> Null, long |-> Null] >> }

MetadataResponses(m) ==
    { NoResponse,
      [exception |-> FALSE, status |-> 500, json_ok |-> FALSE, data |-> <<>>],
      [exception |-> FALSE, status |-> 200, json_ok |-> FALSE, data |-> <<>>] }
    \cup { [exception |-> FALSE, status |-> 200, json_ok |-> TRUE, data |-> body] :
             body \in IF m = "get_countline_metadata" THEN CountlineBodies
                      ELSE HardwareBodies }

\* The road tokens tried: None, and every first part + middle part + last
\* part below.
TokenFirsts == {<<"S", "t">>,
               <<"p", "a", "r", "k">>,
               <<"H", "u", "n", "s", "l", "e", "t">>,
               <<"A", "6", "1">>,
               <<"r", "d">>,
               <<>>}
TokenMids == {<<>>,
             <<"C", "e", "c", "i", "l", "i", "a">>,
             <<"R", "d">>,
             <<"1", "L", "n">>,
             <<" ", "p", "l", " ">>}
TokenLasts == {<<"S", "t">>,
              <<"R", "d">>,
              <<"R", "o", "w">>,
              <<"l", "n">>,
              <<"S">>,
              <<"A", "v", "e">>,
              <<>>}
RoadTokens ==
    {None} \cup {f \o m \o l : f \in TokenFirsts, m \in TokenMids, l \in TokenLasts}

\* ------------------------------------------------------------------- Init
InitBatch ==
    /\ from_date = 0
    /\ to_date = 0
    /\ max_days = 1
    /\ batches = batch_date_range(0, 0, 1)

InitIds ==
    /\ countline_ids = <<>>
    /\ id_batches = IdBatches(<<>>)

\* client.py:71: a constructed client, not yet entered, and no call made
InitFetch ==
    /\ _client = "None"
    /\ pc = "idle"
    /\ method = "none"
    /\ start_time = 0
    /\ end_time = 0
    /\ bidirectional = TRUE
    /\ date_batches = <<>>
    /\ gi = 0
    /\ di = 0
    /\ all_records = <<>>
    /\ result = NoResult
    /\ error = "none"
    /\ requests = <<>>
    /\ log = <<>>
    /\ outer = "none"
    /\ df = {}
    /\ traffic = {}

InitNames ==
    /\ sensor_name = None
    /\ parsed = extract_camera_id(None)
    /\ camel_case = None
    /\ formatted = format_road_name(None)

Init == InitBatch /\ InitIds /\ InitFetch /\ InitNames

\* ------------------------------------------- SpecBatch: batch_date_range
CallBatchDateRange ==
    \E f \in 0..MaxTime, t \in 0..MaxTime, d \in 1..MaxDays :
        /\ from_date' = f
        /\ to_date' = t
        /\ max_days' = d
        /\ batches' = batch_date_range(f, t, d)
        /\ UNCHANGED <<idVars, fetchVars, nameVars>>

NextBatch == CallBatchDateRange
SpecBatch == Init /\ [][NextBatch]_vars

\* --------------------------------------- SpecIds: the identifier batching
SplitIds ==
    \E n \in 0..MaxIds, pat \in IdPatterns :
        /\ countline_ids' = MkIds(n, pat)
        /\ id_batches' = IdBatches(MkIds(n, pat))
        /\ UNCHANGED <<batchVars, fetchVars, nameVars>>

NextIds == SplitIds
SpecIds == Init /\ [][NextIds]_vars

\* ------------------------------------------------ Spec: the fetch methods
\* The client is used by one task at a time: __aenter__ and __aexit__ run
\* between calls, never while a call is suspended at a request.

\* client.py:73-75
AEnter ==
    /\ pc # "loop"
    /\ _client' = "AsyncClient"
    /\ UNCHANGED <<batchVars, idVars, callVars, nameVars>>

\* client.py:77-80
AExit ==
    /\ pc # "loop"
    /\ _client' = "None"
    /\ UNCHANGED <<batchVars, idVars, callVars, nameVars>>

\* client.py:183-189 and :280-286: a call up to its first request, or to its
\* return when there is nothing to request
Call(m, ids, s, e, bidir) ==
    /\ pc # "loop"
    /\ method' = m
    /\ countline_ids' = ids
    /\ start_time' = s
    /\ end_time' = e
    /\ bidirectional' = bidir
    /\ date_batches' = batch_date_range(s, e, FetchMaxDays)
    /\ id_batches' = IdBatches(ids)
    /\ all_records' = <<>>
    /\ requests' = <<>>
    /\ log' = <<>>
    /\ IF IdBatches(ids) = <<>> \/ batch_date_range(s, e, FetchMaxDays) = <<>>
       THEN /\ pc' = "done"
            /\ gi' = 0
            /\ di' = 0
            /\ result' = Return(m, bidir, <<>>)
       ELSE /\ pc' = "loop"
            /\ gi' = 1
            /\ di' = 1
            /\ result' = NoResult
    /\ outer' = "none"
    /\ error' = "none"
    /\ UNCHANGED <<batchVars, _client, df, traffic, nameVars>>

CallGetCounts ==
    \E n \in FetchIdCounts, s \in FetchTimes, e \in FetchTimes, bidir \in BOOLEAN :
        Call("get_counts", MkIds(n, "distinct"), s, e, bidir)

CallGetSpeed ==
    \E n \in FetchIdCounts, s \in FetchTimes, e \in FetchTimes :
        Call("get_speed", MkIds(n, "distinct"), s, e, FALSE)

\* The inner method returns records (client.py:248-260, :326).  Called
\* directly, that ends the call.  Called by fetch_region_traffic_with_speed,
\* get_counts' return is followed by fetch_region_traffic's frame
\* (client.py:355-368), the return of an empty frame (:391-392) or the start
\* of get_speed with the same arguments (:395-397, :281-286; there is a
\* pair to request, as get_counts just requested one); get_speed's return
\* is followed by the join (:399-423).
Returned(records, reqs, lg) ==
    /\ result' = Return(method, bidirectional, records)
    /\ IF outer = "none"
       THEN /\ pc' = "done"
            /\ all_records' = records
            /\ requests' = reqs
            /\ log' = lg
            /\ UNCHANGED <<gi, di, method, df, traffic>>
       ELSE IF method = "get_counts"
       THEN IF FetchRegionTraffic(GroupSum(records)) = {}
            THEN /\ pc' = "done"
                 /\ all_records' = records
                 /\ requests' = reqs
                 /\ log' = lg
                 /\ df' = {}
                 /\ traffic' = {}
                 /\ UNCHANGED <<gi, di, method>>
            ELSE /\ pc' = "loop"
                 /\ method' = "get_speed"
                 /\ all_records' = <<>>
                 /\ requests' = <<>>
                 /\ log' = <<>>
                 /\ gi' = 1
                 /\ di' = 1
                 /\ df' = FetchRegionTraffic(GroupSum(records))
                 /\ UNCHANGED traffic
       ELSE /\ pc' = "done"
            /\ all_records' = records
            /\ requests' = reqs
            /\ log' = lg
            /\ traffic' = JoinSpeed(df, records)
            /\ UNCHANGED <<gi, di, method, df>>

\* The end of one iteration of the loop body (client.py:193-246, :290-324):
\* the outcome's records become all_records, and the loop goes on or the
\* method returns.
Iterate(requested, resp, outcome) ==
    LET failed == outcome.raised \/ outcome.skipped
        next == IF failed
                THEN Continue(gi, di, Len(id_batches), Len(date_batches))
                ELSE NextIteration(gi, di, Len(id_batches), Len(date_batches))
        reqs == IF requested
                THEN Append(requests, [g |-> gi, d |-> di,
                                       countline_ids |-> id_batches[gi]])
                ELSE requests
        lg == Append(log, [g |-> gi, d |-> di, requested |-> requested,
                           resp |-> resp, failed |-> failed,
                           emitted |-> SubSeq(outcome.records,
                                              Len(all_records) + 1,
                                              Len(outcome.records))])
    IN  /\ IF next.more
           THEN /\ pc' = "loop"
                /\ gi' = next.g
                /\ di' = next.d
                /\ all_records' = outcome.records
                /\ requests' = reqs
                /\ log' = lg
                /\ UNCHANGED <<result, method, df, traffic>>
           ELSE Returned(outcome.records, reqs, lg)
        /\ UNCHANGED <<batchVars, idVars, _client, start_time, end_time,
                       bidirectional, date_batches, outer, error, nameVars>>

\* client.py:201 / :298 on a client that is not open: the client property
\* (client.py:82-86) raises RuntimeError inside the try, which the except of
\* :244 / :322 catches; no request is made.
RequestNotOpen ==
    /\ pc = "loop"
    /\ _client = "None"
    /\ Iterate(FALSE, NoResponse,
               [records |-> all_records, raised |-> TRUE, skipped |-> FALSE])

\* client.py:200-246 / :297-324 on an open client: one request and the
\* handling of its response
RequestStep ==
    /\ pc = "loop"
    /\ _client = "AsyncClient"
    /\ \E resp \in Responses(method, id_batches[gi], date_batches[di]) :
           Iterate(TRUE, resp, HandleResponse(method, resp, all_records))

Next == AEnter \/ AExit \/ CallGetCounts \/ CallGetSpeed
            \/ RequestNotOpen \/ RequestStep
Spec == Init /\ [][Next]_vars

\* A started call runs on: each await of a request returns or raises (the
\* client is built with a timeout, client.py:74).
FairSpec == Spec /\ WF_vars(RequestNotOpen) /\ WF_vars(RequestStep)

\* ------------------------------ SpecClient: every data-fetching method
\* client.py:88-131 and :133-160.  The client property (client.py:82-86)
\* is read outside any try: on a client that is not open its RuntimeError
\* leaves the method, and no request is made.  On an open client the call
\* is one request and the handling of its response.  The arguments and
\* locals of the fetch call before it are gone.
CallMetadata(m) ==
    /\ pc # "loop"
    /\ method' = m
    /\ countline_ids' = <<>>
    /\ id_batches' = IdBatches(<<>>)
    /\ start_time' = 0
    /\ end_time' = 0
    /\ bidirectional' = TRUE
    /\ date_batches' = <<>>
    /\ gi' = 0
    /\ di' = 0
    /\ all_records' = <<>>
    /\ log' = <<>>
    /\ outer' = "none"
    /\ IF _client = "None"
       THEN /\ pc' = "failed"
            /\ error' = "RuntimeError"
            /\ result' = NoResult
            /\ requests' = <<>>
       ELSE \E resp \in MetadataResponses(m) :
                LET outcome == MetadataOutcome(m, resp)
                IN  /\ pc' = IF outcome.error = "none" THEN "done" ELSE "failed"
                    /\ error' = outcome.error
                    /\ result' = IF outcome.error = "none"
                                  THEN [kind |-> "list", rows |-> outcome.rows]
                                  ELSE NoResult
                    /\ requests' = <<[g |-> 0, d |-> 0, countline_ids |-> <<>>]>>
    /\ UNCHANGED <<batchVars, _client, df, traffic, nameVars>>

CallGetCountlineMetadata == CallMetadata("get_countline_metadata")

CallGetHardwareMetadata == CallMetadata("get_hardware_metadata")

NextClient == AEnter \/ AExit
                  \/ CallGetCountlineMetadata \/ CallGetHardwareMetadata
                  \/ CallGetCounts \/ CallGetSpeed
                  \/ RequestNotOpen \/ RequestStep
SpecClient == Init /\ [][NextClient]_vars

\* -------------------------- SpecTraffic: fetch_region_traffic_with_speed
TrafficIdCounts == {0, 1, 2}

\* client.py:386-389, :351-353, :183-189: the call up to get_counts' first
\* request, or to its return of an empty frame when get_counts has nothing
\* to request (:355-356, :391-392)
CallFetchRegionTrafficWithSpeed ==
    \E n \in TrafficIdCounts, s \in FetchTimes, e \in FetchTimes :
        /\ pc # "loop"
        /\ method' = "get_counts"
        /\ countline_ids' = MkIds(n, "distinct")
        /\ start_time' = s
        /\ end_time' = e
        /\ bidirectional' = TRUE
        /\ date_batches' = batch_date_range(s, e, FetchMaxDays)
        /\ id_batches' = IdBatches(MkIds(n, "distinct"))
        /\ all_records' = <<>>
        /\ requests' = <<>>
        /\ log' = <<>>
        /\ outer' = "fetch_region_traffic_with_speed"
        /\ error' = "none"
        /\ df' = {}
        /\ traffic' = {}
        /\ IF IdBatches(MkIds(n, "distinct")) = <<>>
              \/ batch_date_range(s, e, FetchMaxDays) = <<>>
           THEN /\ pc' = "done"
                /\ gi' = 0
                /\ di' = 0
                /\ result' = Return("get_counts", TRUE, <<>>)
           ELSE /\ pc' = "loop"
                /\ gi' = 1
                /\ di' = 1
                /\ result' = NoResult
        /\ UNCHANGED <<batchVars, _client, nameVars>>

NextTraffic == AEnter \/ AExit \/ CallFetchRegionTrafficWithSpeed
                   \/ RequestNotOpen \/ RequestStep
SpecTraffic == Init /\ [][NextTraffic]_vars

\* ------------------------------------------ SpecNames: extract_camera_id
CallExtractCameraId ==
    \E name \in SensorNames :
        /\ sensor_name' = name
        /\ parsed' = extract_camera_id(name)
        /\ UNCHANGED <<batchVars, idVars, fetchVars, camel_case, formatted>>

NextNames == CallExtractCameraId
SpecNames == Init /\ [][NextNames]_vars

\* -------------------------------------------- SpecRoad: format_road_name
CallFormatRoadName ==
    \E token \in RoadTokens :
        /\ camel_case' = token
        /\ formatted' = format_road_name(token)
        /\ UNCHANGED <<batchVars, idVars, fetchVars, sensor_name, parsed>>

NextRoad == CallFormatRoadName
SpecRoad == Init /\ [][NextRoad]_vars

\* ================================================================= claims

\* C1: for from_date < to_date and max_days > 0 the sub-ranges returned by
\* batch_date_range tile [from_date, to_date): the first starts at from_date,
\* each starts where the previous one ends, each is non-empty and spans at
\* most max_days, and the last ends at to_date exactly.
C1_Tiling ==
    (from_date < to_date /\ max_days > 0) =>
        /\ Len(batches) >= 1
        /\ batches[1].from = from_date
        /\ \A i \in 1..Len(batches) :
              /\ batches[i].from < batches[i].to
              /\ batches[i].to - batches[i].from <= timedelta(max_days)
        /\ \A i \in 1..(Len(batches) - 1) : batches[i + 1].from = batches[i].to
        /\ batches[Len(batches)].to = to_date

\* A call that needs three sub-ranges, the last one shorter than max_days.
C1_Witness ==
    /\ from_date < to_date
    /\ Len(batches) = 3
    /\ batches[3].to - batches[3].from < timedelta(max_days)

Ceil(n, b) == (n + b - 1) \div b

RECURSIVE Flatten(_)
Flatten(ss) == IF ss = <<>> THEN <<>> ELSE Head(ss) \o Flatten(Tail(ss))

\* C2: N identifiers are split into exactly ceil(N / 50) groups, each of at
\* most 50 identifiers, and the groups concatenated in order are the
\* original list.
C2_IdBatching ==
    /\ Len(id_batches) = Ceil(Len(countline_ids), BatchSize)
    /\ \A k \in 1..Len(id_batches) : Len(id_batches[k]) <= BatchSize
    /\ Flatten(id_batches) = countline_ids

\* A list of more than two full groups: three groups, the last one partial.
C2_Witness ==
    /\ Len(countline_ids) > 2 * BatchSize
    /\ Len(id_batches) = 3
    /\ Len(id_batches[3]) < BatchSize

\* The requests of the call are its (identifier group, date sub-range)
\* pairs, each once, each for its group's identifiers.
AllPairsRequestedOnce ==
    /\ Len(requests) = Len(id_batches) * Len(date_batches)
    /\ \A g \in 1..Len(id_batches), d \in 1..Len(date_batches) :
          /\ Cardinality({i \in 1..Len(requests) :
                            requests[i].g = g /\ requests[i].d = d}) = 1
          /\ \A i \in 1..Len(requests) :
                (requests[i].g = g /\ requests[i].d = d)
                    => requests[i].countline_ids = id_batches[g]

\* C3: a get_counts or get_speed call on an opened client issues exactly
\* G x D requests, one per (identifier group, date sub-range) pair, whatever
\* subset of them fails, and the call terminates.
C3_AllPairsOnceAndTerminates ==
    /\ [][(_client = "AsyncClient" /\ _client' = "AsyncClient" /\ pc' = "done")
            => AllPairsRequestedOnce']_vars
    /\ (pc = "loop") ~> (pc = "done")

\* A finished call of four requests (two groups, two sub-ranges) on an open
\* client, of which the first failed and the last succeeded.
C3_Witness ==
    /\ pc = "done"
    /\ _client = "AsyncClient"
    /\ Len(id_batches) = 2
    /\ Len(date_batches) = 2
    /\ Len(requests) = 4
    /\ log[1].failed
    /\ ~log[4].failed

RECURSIVE EmittedBySuccesses(_)
EmittedBySuccesses(entries) ==
    IF entries = <<>> THEN <<>>
    ELSE (IF Head(entries).failed THEN <<>> ELSE Head(entries).emitted)
         \o EmittedBySuccesses(Tail(entries))

\* C4: in get_counts a sub-batch that fails (a non-200 status, or an
\* exception while requesting or parsing) contributes no record, and the
\* collected records are exactly those of the sub-batches that succeeded.
C4_FailedContributesNothing ==
    method = "get_counts" =>
        /\ \A n \in 1..Len(log) : log[n].failed => log[n].emitted = <<>>
        /\ all_records = EmittedBySuccesses(log)

RECURSIVE SumOfCounts(_)
SumOfCounts(S) ==
    IF S = {} THEN 0
    ELSE LET i == CHOOSE i \in S : TRUE
         IN  all_records[i].count + SumOfCounts(S \ {i})

KeyOf(r) == [countline_id |-> r.countline_id, timestamp |-> r.timestamp,
             to |-> r.to, class |-> r.class, mode |-> r.mode]

Places(data) ==
    UNION { UNION { UNION { { <<i, j, dir, k>> :
        k \in { k \in 1..Len(data[i].records[j][dir]) :
                  /\ data[i].records[j][dir][k].label # "total"
                  /\ data[i].records[j][dir][k].count # Null } } :
        dir \in {"clockwise", "anti_clockwise"} } :
        j \in 1..Len(data[i].records) } :
        i \in 1..Len(data) }

\* The directional record the claim expects of a place.
RecordOf(data, p) ==
    LET rec == data[p[1]].records[p[2]]
        item == rec[p[3]][p[4]]
    IN  [countline_id |-> data[p[1]].id,
         timestamp |-> rec.from,
         from |-> rec.from,
         to |-> rec.to,
         direction |-> p[3],
         class |-> item.label,
         mode |-> IF item.label \in DOMAIN VIVACITY_CLASS_MAP
                  THEN VIVACITY_CLASS_MAP[item.label] ELSE item.label,
         count |-> item.count]

\* C7: for a successful counts response get_counts emits exactly one
\* directional record per (countline, time-bucket record, direction, class
\* label) whose label is not "total" and whose count is not null, and
\* nothing else; the record's mode is the table's value for a label in the
\* table and the label itself otherwise.
C7_OneRecordPerClass ==
    method = "get_counts" =>
        \A n \in 1..Len(log) :
            (log[n].requested /\ ~log[n].failed) =>
                LET data == log[n].resp.data
                    emitted == log[n].emitted
                    places == Places(data)
                IN  /\ Len(emitted) = Cardinality(places)
                    /\ \A p \in places :
                          Cardinality({m \in 1..Len(emitted) :
                                          emitted[m] = RecordOf(data, p)})
                            = Cardinality({q \in places :
                                          RecordOf(data, q) = RecordOf(data, p)})

\* A successful response with a mapped label, an unmapped one and a null
\* count, of which four records were emitted: the unmapped label kept as
\* the mode, the mapped one renamed.
C7_Witness ==
    /\ method = "get_counts"
    /\ \E n \in 1..Len(log) :
          /\ log[n].requested
          /\ ~log[n].failed
          /\ Len(log[n].emitted) = 4
          /\ \E a, b \in 1..4 :
                /\ log[n].emitted[a].class = "escooter"
                /\ log[n].emitted[a].mode = "escooter"
                /\ log[n].emitted[b].class = "cyclist"
                /\ log[n].emitted[b].mode = "bicycle"
          /\ \E i \in 1..Len(log[n].resp.data) :
                \E j \in 1..Len(log[n].resp.data[i].records) :
                    \E k \in 1..Len(log[n].resp.data[i].records[j].clockwise) :
                        log[n].resp.data[i].records[j].clockwise[k].count = Null


RECURSIVE SumOfP85(_)
SumOfP85(S) ==
    IF S = {} THEN 0
    ELSE LET j == CHOOSE j \in S : TRUE
         IN  all_records[j].p85_speed + SumOfP85(S \ {j})

\* The fetched speed records of a row's sensor and calendar day that report
\* a p85 (at the return of fetch_region_traffic_with_speed all_records holds
\* get_speed's records).
SpeedsOf(row) ==
    {j \in 1..Len(all_records) :
        /\ all_records[j].countline_id = row.sensor_id
        /\ all_records[j].from \div UnitsPerDay = row.timestamp \div UnitsPerDay
        /\ all_records[j].p85_speed # Null}

\* C6: in the frame fetch_region_traffic_with_speed returns, a "car" row's
\* v85 is the average of the p85 speeds reported for its sensor and the day
\* of its timestamp whenever one is reported, and every other row's v85 is
\* null.
C6_SpeedJoin ==
    (pc = "done" /\ outer = "fetch_region_traffic_with_speed") =>
        \A row \in traffic :
            IF row.mode = "car"
            THEN SpeedsOf(row) # {} =>
                    /\ ~row.v85.null
                    /\ row.v85.num * Cardinality(SpeedsOf(row))
                          = SumOfP85(SpeedsOf(row)) * row.v85.den
            ELSE row.v85.null

\* A returned frame with a "car" row whose v85 averages two reported speeds
\* (30 and 40) and a row of another mode, same sensor and instant, whose v85
\* is null.
C6_Witness ==
    /\ pc = "done"
    /\ outer = "fetch_region_traffic_with_speed"
    /\ \E car, other \in traffic :
          /\ car.mode = "car"
          /\ Cardinality(SpeedsOf(car)) = 2
          /\ car.v85 = [null |-> FALSE, num |-> 70, den |-> 2]
          /\ other.mode # "car"
          /\ other.sensor_id = car.sensor_id
          /\ other.timestamp = car.timestamp
          /\ other.v85.null

\* The names and values the claims on extract_camera_id speak of
Name_S40_WoodhouseLn_road == <<"S", "4", "0", "_", "W", "o", "o", "d", "h", "o", "u", "s", "e", "L", "n", "_", "r", "o", "a", "d", "_", "w", "y", "c", "a", "0", "0", "1">>
Name_S40_WoodhouseLn_pathLHS == <<"S", "4", "0", "_", "W", "o", "o", "d", "h", "o", "u", "s", "e", "L", "n", "_", "p", "a", "t", "h", "L", "H", "S", "_", "w", "y", "c", "a", "0", "0", "1">>
Name_S40_Vicarln_crossing == <<"S", "4", "0", "_", "V", "i", "c", "a", "r", "l", "n", "_", "c", "r", "o", "s", "s", "i", "n", "g", "_", "s", "o", "u", "t", "h", "_", "l", "p", "t", "i", "p", "0", "0", "1">>
Str_S40 == <<"S", "4", "0">>
Str_S40_woodhouseln == <<"S", "4", "0", "_", "w", "o", "o", "d", "h", "o", "u", "s", "e", "l", "n">>
Str_WoodhouseLane == <<"W", "o", "o", "d", "h", "o", "u", "s", "e", " ", "L", "a", "n", "e">>
Str_VicarLane == <<"V", "i", "c", "a", "r", " ", "L", "a", "n", "e">>
Str_Vicarln == <<"V", "i", "c", "a", "r", "l", "n">>

\* C8: "S40_WoodhouseLn_road_wyca001" parses to camera_id "S40_woodhouseln",
\* cordon_name "S40", road_name "Woodhouse Lane", counter_type "segment", and
\* "S40_WoodhouseLn_pathLHS_wyca001" to the same camera_id and "segment".
C8_WoodhouseLane ==
    /\ sensor_name = Name_S40_WoodhouseLn_road
          => parsed = <<Str_S40_woodhouseln, Str_S40, Str_WoodhouseLane, Segment>>
    /\ sensor_name = Name_S40_WoodhouseLn_pathLHS
          => (parsed[1] = Str_S40_woodhouseln /\ parsed[4] = Segment)

\* C9 as claimed: "S40_Vicarln_crossing_south_lptip001" parses to cordon_name
\* "S40", counter_type "crossing" and road_name "Vicar Lane".
C9_VicarLaneExpanded ==
    sensor_name = Name_S40_Vicarln_crossing
        => (parsed[2] = Str_S40 /\ parsed[4] = Crossing /\ parsed[3] = Str_VicarLane)

\* C9 as amended: "S40_Vicarln_crossing_south_lptip001" parses to cordon_name
\* "S40", counter_type "crossing" and road_name "Vicarln": a trailing
\* abbreviation that no capital letter sets off is not expanded.
C9_VicarlnKept ==
    sensor_name = Name_S40_Vicarln_crossing
        => (parsed[2] = Str_S40 /\ parsed[4] = Crossing /\ parsed[3] = Str_Vicarln)

\* extract_camera_id was applied to "S40_Vicarln_crossing_south_lptip001".
C9_Witness ==
    /\ sensor_name = Name_S40_Vicarln_crossing
    /\ parsed = extract_camera_id(Name_S40_Vicarln_crossing)
    /\ parsed[3] # None

\* C10: whenever the working body left after the camera prefix is empty (as
\* for "S40_"), the returned road_name is null.
C10_EmptyBodyNullRoad ==
    (Truthy(sensor_name) /\ CameraPrefix(sensor_name)[2] = <<>>)
        => parsed[3] = None

\* ------------------------------------------------------------------- C11
Str_StCeciliaSt == <<"S", "t", "C", "e", "c", "i", "l", "i", "a", "S", "t">>
Str_St_Cecilia_Street == <<"S", "t", " ", "C", "e", "c", "i", "l", "i", "a", " ", "S", "t", "r", "e", "e", "t">>
Str_HunsletRd == <<"H", "u", "n", "s", "l", "e", "t", "R", "d">>
Str_Hunslet_Road == <<"H", "u", "n", "s", "l", "e", "t", " ", "R", "o", "a", "d">>
Str_parkRow == <<"p", "a", "r", "k", "R", "o", "w">>
Str_Park_Row == <<"P", "a", "r", "k", " ", "R", "o", "w">>
Str_St == <<"S", "t">>

RECURSIVE TokenWords(_, _, _)
\* The words of a road token: a word ends at a space, and between a lower-case
\* letter or a digit and the upper-case letter that follows it.  prev is the
\* character before s (" " at the start), cur the word being read.
TokenWords(s, prev, cur) ==
    IF s = <<>> THEN (IF cur = <<>> THEN <<>> ELSE <<cur>>)
    ELSE IF Head(s) = " "
    THEN (IF cur = <<>> THEN <<>> ELSE <<cur>>) \o TokenWords(Tail(s), " ", <<>>)
    ELSE IF (IsLower(prev) \/ IsDigit(prev)) /\ IsUpper(Head(s))
    THEN <<cur>> \o TokenWords(Tail(s), Head(s), <<Head(s)>>)
    ELSE TokenWords(Tail(s), Head(s), Append(cur, Head(s)))

\* C11: format_road_name expands an abbreviation of the table only as the
\* last word of the token: the output has one word per word of the token,
\* every word but the last is that word with its first letter upper-cased
\* and the rest lower-cased, never an expansion; "StCeciliaSt" gives
\* "St Cecilia Street", "HunsletRd" gives "Hunslet Road" and "parkRow" gives
\* "Park Row".
C11_OnlyLastWordExpanded ==
    /\ Truthy(camel_case) =>
           LET token_words == TokenWords(camel_case, " ", <<>>)
               out_words == split(formatted, " ")
           IN  /\ token_words # <<>> => Len(out_words) = Len(token_words)
               /\ \A i \in 1..(Len(token_words) - 1) :
                      out_words[i] = capitalize(token_words[i])
    /\ camel_case = Str_StCeciliaSt => formatted = Str_St_Cecilia_Street
    /\ camel_case = Str_HunsletRd => formatted = Str_Hunslet_Road
    /\ camel_case = Str_parkRow => formatted = Str_Park_Row

\* format_road_name("StCeciliaSt") has returned: the first word is an
\* abbreviation of the table and is not the last word.
C11_Witness ==
    /\ camel_case = Str_StCeciliaSt
    /\ formatted = Str_St_Cecilia_Street
    /\ \E i \in 1..Len(road_type_abbrevs) :
           road_type_abbrevs[i].abbrev = lower(Str_St)
    /\ TokenWords(camel_case, " ", <<>>)[1] = Str_St

\* ------------------------------------------------------------------- C12
\* A step that ends a call on a client that is not open: the client is not
\* open before and after it, and a call returns or raises in it.
EndsCallNotOpen ==
    /\ _client = "None"
    /\ _client' = "None"
    /\ pc' \in {"done", "failed"}
    /\ callVars' # callVars

\* C12: every data-fetching method (get_countline_metadata,
\* get_hardware_metadata, get_counts, get_speed) called while the client is
\* not open fails with RuntimeError and returns no result.
C12_NotOpenRaisesRuntimeError ==
    [][EndsCallNotOpen =>
           (pc' = "failed" /\ error' = "RuntimeError" /\ result' = NoResult)]_vars
====
